---- MODULE Spec2Model ----
(***************************************************************************)
(* MyHashMap<usize, V> of src/main.rs: an open-addressing table over a     *)
(* Vec<Pair<K, V>> with linear probing in insert, a doubling rebuild in    *)
(* increase_capacity, and get / remove that look at the home index.        *)
(* Keys are usize (impl HashIt for usize); values are small naturals.      *)
(* Slot i of the Rust vector is bucket[i + 1] here (sequences start at 1). *)
(***************************************************************************)
EXTENDS Integers, Sequences, FiniteSets, TLC

\* ---- bounds of the model ----
MaxKey == 2
MaxVal == 1
MaxInitCap == 1
MaxCap == 4
MaxExtend == 1
MaxGrow == 2

Keys == 0..MaxKey
Values == 0..MaxVal
InitCaps == 0..MaxInitCap
Extends == 0..MaxExtend

\* ---- program constants ----
\* K::default() and V::default() for usize / integer values
DefaultKey == 0
DefaultValue == 0
\* let a = 2654435769 = GoldenHi * 2^16 + GoldenLo
GoldenHi == 40503
GoldenLo == 31161
Limb == 65536

\* Option<T>: None is the empty tuple, Some(x) the one-element tuple
None == << >>
Some(x) == << x >>

Pair(k, v, o) == [key |-> k, value |-> v, is_occupied |-> o]
PairDefault == Pair(DefaultKey, DefaultValue, FALSE)

\* impl HashIt for usize: (self.wrapping_mul(a)) >> (64 - 32).
\* For self < 2^15 the product is below 2^47, so the 64-bit wrap is the
\* identity; the shift by 32 is carried out on 16-bit limbs of a, which keeps
\* every intermediate value below 2^31:
\* (k*Hi*2^16 + k*Lo) >> 32 = (k*Hi + ((k*Lo) >> 16)) >> 16.
hash(k) == (k * GoldenHi + ((k * GoldenLo) \div Limb)) \div Limb

\* vec![Pair::default(); capacity]
with_capacity(capacity) == [i \in 1..capacity |-> PairDefault]

\* the three assignments key / value / is_occupied = true at bucket[index]
store(b, index, key, value) == [b EXCEPT ![index + 1] = Pair(key, value, TRUE)]

RECURSIVE insert(_, _, _)
RECURSIVE probe(_, _, _, _, _, _)
RECURSIVE reinsert(_, _, _)

\* for pair in self.bucket.iter() { new_map.insert(pair.key, pair.value) }
\* from the i-th pair of the old bucket on; insert's return value is dropped
reinsert(old, i, new_map) ==
    IF i > Len(old) THEN new_map
    ELSE reinsert(old, i + 1, insert(new_map, old[i].key, old[i].value).bucket)

\* a growth that rebuilds the map at its old length (the `* 2` left out)
increase_capacity_same_length(b) == reinsert(b, 1, with_capacity(Len(b)))

\* a growth that adds a fixed number of slots instead of doubling
increase_capacity_by_step(b) == reinsert(b, 1, with_capacity(Len(b) + 2))

\* increase_capacity: build a map of twice the length, insert every pair of
\* the old bucket (occupied or not), then *self = new_map
increase_capacity(b) == reinsert(b, 1, with_capacity(Len(b) * 2))

\* a loop that tests `start == index` before it tests for an empty slot
probe_grows_early(b, key, value, start, index0, grown) ==
    LET index == (index0 + 1) % Len(b) IN
    IF b[index + 1].key = key
    THEN [bucket |-> [b EXCEPT ![index + 1].value = value],
          ret |-> Some(b[index + 1].value), grown |-> grown]
    ELSE IF start = index
    THEN probe(increase_capacity(b), key, value, start, index, grown + 1)
    ELSE IF ~b[index + 1].is_occupied
    THEN [bucket |-> store(b, index, key, value), ret |-> None, grown |-> grown]
    ELSE probe(b, key, value, start, index, grown)

\* the loop of insert; index is the value before `index = (index + 1) % len`,
\* start keeps the home index computed before any growth, grown counts the
\* calls of increase_capacity made by this insert
probe(b, key, value, start, index0, grown) ==
    LET index == (index0 + 1) % Len(b) IN
    IF b[index + 1].key = key
    THEN [bucket |-> [b EXCEPT ![index + 1].value = value],
          ret |-> Some(b[index + 1].value), grown |-> grown]
    ELSE IF ~b[index + 1].is_occupied
    THEN [bucket |-> store(b, index, key, value), ret |-> None, grown |-> grown]
    ELSE IF start = index
    THEN probe(increase_capacity(b), key, value, start, index, grown + 1)
    ELSE probe(b, key, value, start, index, grown)

\* insert(&mut self, key, value) -> Option<V>, for a bucket of length > 0
insert(b, key, value) ==
    LET index == hash(key) % Len(b) IN
    IF ~b[index + 1].is_occupied
    THEN [bucket |-> store(b, index, key, value), ret |-> None, grown |-> 0]
    ELSE probe(b, key, value, index, index, 0)

\* get(&self, key) -> Option<&V>, for a bucket of length > 0
get(b, key) ==
    LET index == hash(key) % Len(b) IN
    IF b[index + 1].is_occupied THEN Some(b[index + 1].value) ELSE None

\* remove(&mut self, key): the Some branch; the else branch panics
remove(b, key) ==
    LET index == hash(key) % Len(b) IN
    [bucket |-> [b EXCEPT ![index + 1] = PairDefault], ret |-> Some(b[index + 1])]

\* the condition of remove's if: the home slot is occupied
remove_finds(b, key) == b[(hash(key) % Len(b)) + 1].is_occupied

\* ---- state ----
VARIABLES bucket, panic, last, before, hist, run
\* bucket : self.bucket, the Vec<Pair<K, V>>
\* panic  : "" while the process runs, else the panic that aborted it
\* last   : the call that returned last (or panicked): op, key, value, ret, grown
\* before : self.bucket as it was when the last call started
\* hist   : what the caller has written so far (key -> None or Some(value)) and
\*          whether the table grew, while every call was an insert of a key not
\*          inserted before (Void after any other call)
\* run    : the frame of an insert whose loop is executing (pc, key, value,
\*          start, index, grown); Idle when no call is in progress. Spec runs
\*          every call in one step and leaves it Idle; SpecSteps runs insert's
\*          loop one iteration at a time.
vars == << bucket, panic, last, before, hist, run >>

NoPanic == ""
RemZero == "attempt to calculate the remainder with a divisor of zero"
KeyPanic == "Given Key does not exist."

Idle == [pc |-> "idle", key |-> DefaultKey, value |-> DefaultValue,
         start |-> 0, index |-> 0, grown |-> 0]
Void == [distinct |-> FALSE, written |-> [k \in Keys |-> None], grown |-> FALSE]
Call(op, key, value, ret, grown) ==
    [op |-> op, key |-> key, value |-> value, ret |-> ret, grown |-> grown]

\* MyHashMap::with_capacity(capacity), for the capacities of InitCaps (0 is
\* accepted by the code). MyHashMap::new() is with_capacity(INITIAL_CAPACITY),
\* 15 slots, the same construction above the bound MaxInitCap.
Init ==
    /\ \E capacity \in InitCaps : bucket = with_capacity(capacity)
    /\ panic = NoPanic
    /\ last = Call("new", DefaultKey, DefaultValue, None, 0)
    /\ before = bucket
    /\ hist = [distinct |-> TRUE, written |-> [k \in Keys |-> None], grown |-> FALSE]
    /\ run = Idle

\* the caller's record of a call: Void unless every call so far, this one
\* included, was an insert of a key not inserted before
Record(op, key, value, grown) ==
    IF op = "insert" /\ hist.distinct /\ hist.written[key] = None
    THEN [distinct |-> TRUE, written |-> [hist.written EXCEPT ![key] = Some(value)],
          grown |-> hist.grown \/ grown > 0]
    ELSE Void

\* my_hashmap.insert(key, value); `% self.bucket.len()` panics on an empty bucket
Insert(key, value) ==
    /\ panic = NoPanic
    /\ UNCHANGED run
    /\ before' = bucket
    /\ IF Len(bucket) = 0
       THEN /\ panic' = RemZero
            /\ last' = Call("insert", key, value, None, 0)
            /\ hist' = Void
            /\ UNCHANGED bucket
       ELSE LET r == insert(bucket, key, value) IN
            /\ Len(r.bucket) <= MaxCap \/ r.grown = 0
            /\ bucket' = r.bucket
            /\ last' = Call("insert", key, value, r.ret, r.grown)
            /\ hist' = Record("insert", key, value, r.grown)
            /\ UNCHANGED panic

\* my_hashmap.get(&key)
Get(key) ==
    /\ panic = NoPanic
    /\ UNCHANGED run
    /\ before' = bucket
    /\ hist' = Void
    /\ IF Len(bucket) = 0
       THEN /\ panic' = RemZero
            /\ last' = Call("get", key, DefaultValue, None, 0)
       ELSE /\ last' = Call("get", key, DefaultValue, get(bucket, key), 0)
            /\ UNCHANGED panic
    /\ UNCHANGED bucket

\* my_hashmap.remove(key)
Remove(key) ==
    /\ panic = NoPanic
    /\ UNCHANGED run
    /\ before' = bucket
    /\ hist' = Void
    /\ IF Len(bucket) = 0
       THEN /\ panic' = RemZero
            /\ last' = Call("remove", key, DefaultValue, None, 0)
            /\ UNCHANGED bucket
       ELSE IF remove_finds(bucket, key)
       THEN /\ bucket' = remove(bucket, key).bucket
            /\ last' = Call("remove", key, DefaultValue, remove(bucket, key).ret, 0)
            /\ UNCHANGED panic
       ELSE /\ panic' = KeyPanic
            /\ last' = Call("remove", key, DefaultValue, None, 0)
            /\ UNCHANGED bucket

\* an extend that appends how_much default slots (Vec::resize) instead of
\* reserving room for them
Extend_resizes(how_much) ==
    /\ panic = NoPanic
    /\ UNCHANGED run
    /\ before' = bucket
    /\ hist' = Void
    /\ last' = Call("extend", how_much, DefaultValue, None, 0)
    /\ bucket' = bucket \o with_capacity(how_much)
    /\ UNCHANGED panic

\* my_hashmap.extend(how_much): self.bucket.reserve_exact(how_much) changes the
\* allocation behind the vector (Vec::capacity), never its length or elements;
\* no method of MyHashMap reads the allocation, so it is not part of the state
Extend(how_much) ==
    /\ panic = NoPanic
    /\ UNCHANGED run
    /\ before' = bucket
    /\ hist' = Void
    /\ last' = Call("extend", how_much, DefaultValue, None, 0)
    /\ UNCHANGED << bucket, panic >>

Next ==
    \/ \E key \in Keys, value \in Values : Insert(key, value)
    \/ \E key \in Keys : Get(key)
    \/ \E key \in Keys : Remove(key)
    \/ \E how_much \in Extends : Extend(how_much)

Spec == Init /\ [][Next]_vars

\* ---- vocabulary of the properties ----
\* key is held by some occupied slot of b
Stored(b, key) == \E i \in 1..Len(b) : b[i].is_occupied /\ b[i].key = key

\* number of slots of b whose flag is false
FreeSlots(b) == Cardinality({i \in 1..Len(b) : ~b[i].is_occupied})

\* slot i (0-based) of b holds key and every slot of key's probe sequence
\* from hash(key) mod capacity up to i is occupied
OnProbePath(b, key, i) ==
    LET home == hash(key) % Len(b)
        dist == (i + Len(b) - home) % Len(b)
    IN  /\ b[i + 1].is_occupied /\ b[i + 1].key = key
        /\ \A d \in 0..dist : b[((home + d) % Len(b)) + 1].is_occupied

\* ---- C1 ----
\* C1 (round trip): after insert(k, v) has returned on a table of capacity > 0,
\* get(k) returns Some(v), whatever occupies k's home slot.
C1_RoundTrip ==
    (last.op = "insert" /\ panic = NoPanic) => get(bucket, last.key) = Some(last.value)

\* ---- C2 ----
\* C2 (update semantics): when insert(k, v2) directly follows insert(k, v1), the
\* second call returns Some(v1) and get(k) then returns Some(v2).
C2_UpdateSemantics ==
    [][(last.op = "insert" /\ last'.op = "insert" /\ last'.key = last.key /\ panic' = NoPanic)
        => (last'.ret = Some(last.value) /\ get(bucket', last'.key) = Some(last'.value))]_vars

\* ---- C3 ----
\* C3 (removal): when remove(k) directly follows insert(k, v), it returns the
\* pair with key k and value v, and get(k) then returns None.
C3_Removal ==
    [][(last.op = "insert" /\ last'.op = "remove" /\ last'.key = last.key /\ panic = NoPanic)
        => /\ panic' = NoPanic
           /\ last'.ret # None
           /\ last'.ret[1].key = last.key /\ last'.ret[1].value = last.value
           /\ get(bucket', last.key) = None]_vars

\* ---- C4 ----
\* C4 (missing removal): remove(k) on a table of capacity > 0 that does not
\* store k neither panics nor returns a removed pair.
C4_MissingRemoval ==
    (last.op = "remove" /\ Len(before) > 0 /\ ~Stored(before, last.key))
        => (panic = NoPanic /\ last.ret = None)

\* ---- C5 ----
\* C5 (growth preserves entries): after a run of inserts of distinct keys during
\* which the table grew, get(k) returns the value written for every inserted k.
C5_GrowthPreserves ==
    (hist.distinct /\ hist.grown /\ panic = NoPanic)
        => \A k \in Keys : hist.written[k] # None => get(bucket, k) = hist.written[k]

\* ---- C6 ----
\* C6 (key uniqueness): no two occupied slots hold equal keys.
C6_KeyUniqueness ==
    \A i, j \in 1..Len(bucket) :
        (i # j /\ bucket[i].is_occupied /\ bucket[j].is_occupied) => bucket[i].key # bucket[j].key

\* ---- C7 ----
\* C7 (lookup miss): get(k) returns None when no occupied slot holds k, and a
\* value it returns is the value of an occupied slot whose key is k.
C7_LookupMiss ==
    (last.op = "get" /\ panic = NoPanic)
        => /\ ~Stored(bucket, last.key) => last.ret = None
           /\ last.ret # None =>
                \E i \in 1..Len(bucket) :
                    /\ bucket[i].is_occupied /\ bucket[i].key = last.key
                    /\ last.ret = Some(bucket[i].value)

\* ---- C8 ----
\* C8 (colliding keys): when insert(k2, v2) directly follows insert(k1, v1), the
\* keys differ and share a home index, and the table had room for both, then
\* get(k1) = Some(v1), get(k2) = Some(v2) and k2 sits on the probe path from
\* the shared home index.
C8_CollidingKeys ==
    [][(/\ last.op = "insert" /\ last'.op = "insert" /\ last.key # last'.key
        /\ FreeSlots(before) >= 2
        /\ hash(last.key) % Len(bucket) = hash(last'.key) % Len(bucket))
        => /\ get(bucket', last.key) = Some(last.value)
           /\ get(bucket', last'.key) = Some(last'.value)
           /\ \E i \in 0..(Len(bucket') - 1) :
                OnProbePath(bucket', last'.key, i) /\ bucket'[i + 1].value = last'.value]_vars

\* ---- C9 ----
\* C9 (removal keeps other entries): after a successful remove(k), every slot
\* that held another key k' holds it still with the same value, and get(k') and
\* remove(k') find it as they did before the call.
C9_RemovalKeepsOthers ==
    (last.op = "remove" /\ panic = NoPanic /\ Len(before) > 0)
        => \A i \in 1..Len(before) :
            (before[i].is_occupied /\ before[i].key # last.key)
                => /\ bucket[i] = before[i]
                   /\ get(before, before[i].key) = Some(before[i].value)
                        => get(bucket, before[i].key) = Some(before[i].value)
                   /\ (remove_finds(before, before[i].key)
                        /\ remove(before, before[i].key).ret = Some(before[i]))
                        => (remove_finds(bucket, before[i].key)
                            /\ remove(bucket, before[i].key).ret = Some(before[i]))

\* ---- C10 ----
\* every slot of b is occupied by a key other than key: the probe of
\* insert(key, _) visits every slot and meets neither key nor an empty slot
FullCycle(b, key) == \A i \in 1..Len(b) : b[i].is_occupied /\ b[i].key # key

\* C10 (capacity monotonicity): a call never shrinks the slot array; when it
\* changes the length it exactly doubles it, and the call is an insert whose
\* probe went full cycle over the array as it was before the call.
C10_CapacityMonotone ==
    /\ Len(bucket) >= Len(before)
    /\ Len(bucket) # Len(before)
        => /\ Len(bucket) = 2 * Len(before)
           /\ last.op = "insert"
           /\ FullCycle(before, last.key)

\* a state in which an insert has just doubled a two-slot array
C10_Witness ==
    last.op = "insert" /\ last.grown = 1 /\ Len(before) = 2 /\ Len(bucket) = 4

\* ---- C11 ----
\* C11 (failed removal changes nothing): after remove(k) on a table of
\* capacity > 0 that does not store k, every slot and the capacity are as they
\* were before the call.
C11_FailedRemovalFrame ==
    (last.op = "remove" /\ Len(before) > 0 /\ ~Stored(before, last.key)) => bucket = before

\* ---- C12 ----
\* C12 (non-zero capacity): the table never has zero slots, and no call
\* panics on `hash(key) % capacity`.
C12_NonZeroCapacity == Len(bucket) > 0 /\ panic # RemZero

\* ---- C14 ----
\* C14 (extend is an allocation hint): after extend(n) the slot array, hence
\* its length, every slot and the result of every get, is what it was before
\* the call, and the call did not panic.
C14_ExtendFrame ==
    last.op = "extend"
        => /\ bucket = before
           /\ panic = NoPanic
           /\ Len(bucket) > 0 => \A k \in Keys : get(bucket, k) = get(before, k)

\* extend(n) with n > 0 has returned on a table that holds an entry
C14_Witness ==
    last.op = "extend" /\ last.key > 0 /\ \E i \in 1..Len(bucket) : bucket[i].is_occupied

\* ---- C15 ----
\* C15 (integer-key hashing): hash(0) and hash(1) differ, and both reduce
\* modulo the table's capacity (> 0) to an index in 0 .. capacity - 1.
C15_IntegerHash ==
    Len(bucket) > 0
        => /\ hash(0) # hash(1)
           /\ hash(0) % Len(bucket) \in 0..(Len(bucket) - 1)
           /\ hash(1) % Len(bucket) \in 0..(Len(bucket) - 1)

\* ---- C16 ----
\* C16 (probe-chain invariant): every occupied slot lies on the probe sequence
\* of its key with no empty slot between the key's home index and the slot.
C16_ProbeChain ==
    \A i \in 0..(Len(bucket) - 1) :
        bucket[i + 1].is_occupied => OnProbePath(bucket, bucket[i + 1].key, i)

\* ---- C17 ----
\* 0-based index of the first slot of b with a false flag on the probe sequence
\* of key (b has such a slot)
FirstFree(b, key) ==
    LET home == hash(key) % Len(b)
        free == {d \in 0..(Len(b) - 1) : ~b[((home + d) % Len(b)) + 1].is_occupied}
        dist == CHOOSE d \in free : \A e \in free : d <= e
    IN  (home + dist) % Len(b)

\* C17 (insert after growth uses the new home): an insert that grew the table
\* leaves its key, with its value, in the first free slot of the probe
\* sequence from hash(key) mod the doubled capacity of the rebuilt array.
C17_InsertAfterGrowth ==
    (last.op = "insert" /\ last.grown > 0 /\ panic = NoPanic)
        => bucket[FirstFree(increase_capacity(before), last.key) + 1]
            = Pair(last.key, last.value, TRUE)

\* ---- C18 ----
\* number of slots of b whose flag is true
Occupied(b) == Len(b) - FreeSlots(b)

\* C18 (inserting an absent key): insert(k, v) on a table of capacity > 0 that
\* does not store k returns None, and afterwards one more slot is occupied
\* than before and an occupied slot holds (k, v).
C18_InsertAbsent ==
    (last.op = "insert" /\ panic = NoPanic /\ Len(before) > 0 /\ ~Stored(before, last.key))
        => /\ last.ret = None
           /\ Occupied(bucket) = Occupied(before) + 1
           /\ \E i \in 1..Len(bucket) : bucket[i] = Pair(last.key, last.value, TRUE)

\* ---- C19 ----
\* C19 (empty slots stay blank): every slot whose flag is false holds the
\* default key and the default value.
C19_EmptySlotsBlank ==
    \A i \in 1..Len(bucket) : ~bucket[i].is_occupied => bucket[i] = PairDefault

\* ---- insert, one loop iteration per step ----
\* insert up to the loop: the index computation, the home-slot branch
\* (lines 56-64) and `let start = index` (line 88). A call whose probe would
\* go full cycle is taken only while the doubled array stays within MaxCap.
InsertCall(key, value) ==
    /\ panic = NoPanic /\ run.pc = "idle"
    /\ before' = bucket
    /\ IF Len(bucket) = 0
       THEN /\ panic' = RemZero
            /\ last' = Call("insert", key, value, None, 0)
            /\ hist' = Void
            /\ UNCHANGED << bucket, run >>
       ELSE LET index == hash(key) % Len(bucket) IN
            /\ FullCycle(bucket, key) => 2 * Len(bucket) <= MaxCap
            /\ last' = Call("insert", key, value, None, 0)
            /\ UNCHANGED panic
            /\ IF ~bucket[index + 1].is_occupied
               THEN /\ bucket' = store(bucket, index, key, value)
                    /\ hist' = Record("insert", key, value, 0)
                    /\ UNCHANGED run
               ELSE /\ run' = [pc |-> "loop", key |-> key, value |-> value,
                               start |-> index, index |-> index, grown |-> 0]
                    /\ UNCHANGED << bucket, hist >>

\* one iteration of insert's loop (lines 89-108): advance index, then return
\* on an equal key, return on an empty slot, or grow when index is back at
\* start, and loop again otherwise
InsertLoop ==
    /\ panic = NoPanic /\ run.pc = "loop"
    /\ UNCHANGED << panic, before >>
    /\ LET index == (run.index + 1) % Len(bucket) IN
       IF bucket[index + 1].key = run.key
       THEN /\ bucket' = [bucket EXCEPT ![index + 1].value = run.value]
            /\ last' = Call("insert", run.key, run.value, Some(bucket[index + 1].value), run.grown)
            /\ hist' = Record("insert", run.key, run.value, run.grown)
            /\ run' = Idle
       ELSE IF ~bucket[index + 1].is_occupied
       THEN /\ bucket' = store(bucket, index, run.key, run.value)
            /\ last' = Call("insert", run.key, run.value, None, run.grown)
            /\ hist' = Record("insert", run.key, run.value, run.grown)
            /\ run' = Idle
       ELSE IF run.start = index
       THEN /\ 2 * Len(bucket) <= MaxCap /\ run.grown < MaxGrow
            /\ bucket' = increase_capacity(bucket)
            /\ run' = [run EXCEPT !.index = index, !.grown = @ + 1]
            /\ UNCHANGED << last, hist >>
       ELSE /\ run' = [run EXCEPT !.index = index]
            /\ UNCHANGED << bucket, last, hist >>

\* the caller makes its next call once the previous one has returned
StepsNext ==
    \/ \E key \in Keys, value \in Values : InsertCall(key, value)
    \/ InsertLoop
    \/ \E key \in Keys : run.pc = "idle" /\ Get(key)
    \/ \E key \in Keys : run.pc = "idle" /\ Remove(key)
    \/ \E how_much \in Extends : run.pc = "idle" /\ Extend(how_much)

\* the loop is straight-line code of a single thread: an iteration that can
\* be executed is executed
SpecSteps == Init /\ [][StepsNext]_vars /\ WF_vars(InsertLoop)

\* ---- C13 ----
\* C13 (insert terminates): an insert whose loop is running returns.
C13_InsertTerminates == (run.pc = "loop") ~> (run.pc = "idle")

\* an insert into a full table that does not hold its key has grown the
\* table and returned
C13_Witness ==
    /\ run.pc = "idle" /\ last.op = "insert" /\ last.grown = 1
    /\ Len(before) = 2 /\ FullCycle(before, last.key) /\ Stored(bucket, last.key)

\* an insert into a full table of capacity 1 has returned
C13_WitnessOne ==
    /\ run.pc = "idle" /\ last.op = "insert" /\ last.grown = 1 /\ Len(before) = 1

\* ---- C20 ----
\* C20 (at most one growth per insert): an insert calls increase_capacity at
\* most once; when it does, every slot of the old array is occupied, and the
\* rebuilt array has exactly twice the old length (no insert of the rebuild
\* grew the new map again).
C20_OneGrowth ==
    last.op = "insert"
        => /\ last.grown <= 1
           /\ last.grown = 1
                => /\ \A i \in 1..Len(before) : before[i].is_occupied
                   /\ Len(increase_capacity(before)) = 2 * Len(before)
                   /\ Len(bucket) = 2 * Len(before)

\* an insert has grown a full two-slot table that holds a key twice
C20_Witness ==
    /\ last.op = "insert" /\ last.grown = 1 /\ Len(before) = 2
    /\ before[1].key = before[2].key

====
